---- MODULE Spec2Model ----
(***************************************************************************)
(* A model of the mymoney expense tracker: the transaction and budget      *)
(* tables (backend/models.py), the CRUD layer over them (backend/crud.py), *)
(* the analytics and transaction endpoints (backend/api), the budget       *)
(* progress card (frontend/components/cards.py) and the budget page        *)
(* (frontend/pages/3_Budget.py).                                           *)
(*                                                                         *)
(* Amounts are integers (the Float columns hold whole numbers here), a     *)
(* datetime is <<year, month, day>>, the text "YYYY-MM" is <<year, month>>, *)
(* and SQL NULL for a date is the empty tuple.                             *)
(***************************************************************************)
EXTENDS Integers, Sequences, FiniteSets, TLC

VARIABLES
    transactions,   \* table "transactions": id -> row
    budgets,        \* table "budgets": id -> row
    response,       \* what the last request returned to its caller
    card,           \* the last budget progress card that was rendered
    users,          \* table "users": id -> row
    registering,    \* the register requests in flight, one per worker
    session         \* st.session_state of the browser session

vars == <<transactions, budgets, response, card, users, registering, session>>

\* the state of the accounts: the users table, the register requests in
\* flight and the browser session
accounts == <<users, registering, session>>

\* ------------------------------------------------------------------ bounds

\* the largest id a table hands out, hence the most rows it holds
MaxTx == 2          \* "transactions" in the ledger specification
MaxOwnTx == 2       \* "transactions" in the two-owner specification
MaxOwnBudgets == 2  \* "budgets" in the two-owner specification
MaxPageTx == 2      \* "transactions" in the budget page specification
MaxPageBudgets == 2 \* "budgets" in the budget page specification
MaxWriteTx == 2     \* "transactions" in the write-path specification
MaxQueryTx == 2     \* "transactions" in the query specification
MaxQueryBudgets == 2 \* "budgets" in the query specification
MaxUsers == 2       \* "users" in the accounts specification

\* ------------------------------------------------------------------ values

NULL_DATE == <<>>
\* None in an Optional[str] field, NULL in a String column
NULL_TEXT == "NULL"

Users == {1, 2}
Types == {"income", "expense"}
\* some of the categories the transaction form offers for each type
Catalog == [income |-> {"Salary"}, expense |-> {"Food", "Rent"}]
Categories == Catalog["income"] \cup Catalog["expense"]
\* the last day of one month and the first day of the next
Dates == {<<2024, 1, 31>>, <<2024, 2, 1>>}
MonthKeys == {<<2024, 1>>, <<2024, 2>>}
\* the form sends an expense as a negative amount, an income as a positive one
Amounts == {-50, 100}
\* the reading of datetime.utcnow() when a transaction is stored without a date
Today == <<2024, 2, 1>>

\* ------------------------------------------------------------------ helpers

RECURSIVE SumAmount(_)
\* func.sum(amount) over a set of rows
SumAmount(rows) ==
    IF rows = {} THEN 0
    ELSE LET x == CHOOSE y \in rows : TRUE
         IN  x.amount + SumAmount(rows \ {x})

Max(S) == CHOOSE x \in S : \A y \in S : y <= x

Rows(table) == {table[i] : i \in DOMAIN table}

\* func.strftime('%Y-%m', date): NULL for a NULL date
strftime_Ym(date) ==
    IF date = NULL_DATE THEN NULL_DATE ELSE <<date[1], date[2]>>

\* INTEGER PRIMARY KEY of SQLite: one more than the largest id in the table
NextId(table) == IF DOMAIN table = {} THEN 1 ELSE Max(DOMAIN table) + 1

\* ------------------------------------------------------------------ schemas.py

\* the fields TransactionBase and TransactionUpdate declare
SchemaFields == {"amount", "category", "description", "transaction_type", "date"}

\* the fields of TransactionBase without a default
RequiredFields == {"amount", "category", "transaction_type"}

\* None, the default of the Optional fields
FieldDefault(k) == IF k = "date" THEN NULL_DATE ELSE NULL_TEXT

\* validate_type: v in ['income', 'expense']
validate_type(v) == v \in Types

\* whether a request body passes TransactionCreate: the required fields are
\* there and transaction_type passes its validator
TransactionCreate_accepts(body) ==
    /\ RequiredFields \subseteq DOMAIN body
    /\ validate_type(body.transaction_type)

\* variant: a field the schema does not declare is kept
TransactionCreate_allowExtra(body) ==
    [k \in SchemaFields \cup DOMAIN body |->
        IF k \in DOMAIN body THEN body[k] ELSE FieldDefault(k)]

\* TransactionCreate(**body).dict(): the declared fields, an absent Optional
\* one as None; a field the schema does not declare is ignored
TransactionCreate(body) ==
    [k \in SchemaFields |->
        IF k \in DOMAIN body THEN body[k] ELSE FieldDefault(k)]

\* whether a row passes schemas.Transaction, the response_model of the
\* transaction endpoints: it inherits validate_type from TransactionBase
Transaction_accepts(row) == validate_type(row.transaction_type)

\* variant: a field the schema does not declare is kept
TransactionUpdate_allowExtra(body) == body

\* TransactionUpdate(**body).dict(exclude_unset=True): the declared fields
\* the body sets; the schema has no validator
TransactionUpdate(body) ==
    [k \in SchemaFields \cap DOMAIN body |-> body[k]]

\* ------------------------------------------------------------------ crud.py

\* models.Transaction(**transaction.dict(), user_id=user_id); a date of None
\* takes the column default datetime.utcnow, here the clock reading `now`
\* the id of the row the INSERT makes: the one among the keyword arguments
\* if there is one, else the one the table assigns
crud_new_transaction_id(db, transaction) ==
    IF "id" \in DOMAIN transaction THEN transaction.id ELSE NextId(db)

crud_create_transaction(db, transaction, user_id, now) ==
    LET id == crud_new_transaction_id(db, transaction)
        row == [id |-> id,
                amount |-> transaction.amount,
                category |-> transaction.category,
                description |-> transaction.description,
                transaction_type |-> transaction.transaction_type,
                date |-> IF transaction.date = NULL_DATE THEN now
                         ELSE transaction.date,
                user_id |-> user_id]
    IN  [i \in DOMAIN db \cup {id} |-> IF i = id THEN row ELSE db[i]]

\* variant: the filter on user_id is missing
crud_find_transaction_anyOwner(db, transaction_id, user_id) ==
    {i \in DOMAIN db : i = transaction_id}

\* the row update_transaction and delete_transaction work on, if any
crud_find_transaction(db, transaction_id, user_id) ==
    {i \in DOMAIN db : i = transaction_id /\ db[i].user_id = user_id}

\* variant: a description the request does not set is reset to None
crud_update_transaction_resetting(db, transaction_id, transaction, user_id) ==
    IF crud_find_transaction(db, transaction_id, user_id) = {} THEN db
    ELSE [db EXCEPT ![transaction_id] =
            [k \in DOMAIN db[transaction_id] |->
                IF k \in DOMAIN transaction THEN transaction[k]
                ELSE IF k = "description" THEN NULL_TEXT
                ELSE db[transaction_id][k]]]

\* for key, value in transaction.dict(exclude_unset=True).items(): setattr
crud_update_transaction(db, transaction_id, transaction, user_id) ==
    IF crud_find_transaction(db, transaction_id, user_id) = {} THEN db
    ELSE [db EXCEPT ![transaction_id] =
            [k \in DOMAIN db[transaction_id] |->
                IF k \in DOMAIN transaction THEN transaction[k]
                ELSE db[transaction_id][k]]]

crud_delete_transaction(db, transaction_id, user_id) ==
    IF crud_find_transaction(db, transaction_id, user_id) = {} THEN db
    ELSE [i \in DOMAIN db \ {transaction_id} |-> db[i]]

RECURSIVE InIdOrder(_, _)
\* .all() of a query without ORDER BY: the rows in id order
InIdOrder(db, ids) ==
    IF ids = {} THEN <<>>
    ELSE LET m == Max(ids)
         IN  Append(InIdOrder(db, ids \ {m}), db[m])

\* variant: the filter on user_id is missing
crud_get_transactions_mut(db, user_id, skip, limit) ==
    LET all == InIdOrder(db, DOMAIN db)
    IN  SubSeq(all, skip + 1, IF skip + limit < Len(all) THEN skip + limit
                              ELSE Len(all))

\* the rows of the owner, after .offset(skip).limit(limit)
crud_get_transactions(db, user_id, skip, limit) ==
    LET all == InIdOrder(db, {i \in DOMAIN db : db[i].user_id = user_id})
    IN  SubSeq(all, skip + 1, IF skip + limit < Len(all) THEN skip + limit
                              ELSE Len(all))

crud_get_budgets(db, user_id) ==
    InIdOrder(db, {i \in DOMAIN db : db[i].user_id = user_id})

crud_create_budget(db, budget, user_id) ==
    LET id == NextId(db)
        row == [id |-> id,
                category |-> budget.category,
                amount |-> budget.amount,
                month |-> budget.month,
                user_id |-> user_id]
    IN  [i \in DOMAIN db \cup {id} |-> IF i = id THEN row ELSE db[i]]

\* variant: the filter on the month is missing
SummaryRows_noMonth(db, user_id, month) ==
    {t \in Rows(db) : t.user_id = user_id}

\* variant: the filter on user_id is missing
SummaryRows_noOwner(db, user_id, month) ==
    {t \in Rows(db) : strftime_Ym(t.date) = month}

\* variant: the rows as they were before the newest row was inserted
SummaryRows_stale(db, user_id, month) ==
    {t \in Rows(db) : /\ t.user_id = user_id
                      /\ strftime_Ym(t.date) = month
                      /\ t.id # Max(DOMAIN db)}

\* the rows of the summary query: the owner's, in the month
SummaryRows(db, user_id, month) ==
    {t \in Rows(db) : /\ t.user_id = user_id
                      /\ strftime_Ym(t.date) = month}

\* variant: no grouping, the last row of a transaction_type gives its total
crud_get_monthly_summary_lastWins(db, user_id, month) ==
    LET rows == SummaryRows(db, user_id, month)
        types == {t.transaction_type : t \in rows}
    IN  [ty \in types |->
            (CHOOSE t \in rows :
                /\ t.transaction_type = ty
                /\ \A o \in rows :
                    o.transaction_type = ty => o.id <= t.id).amount]

\* {t.transaction_type: t.total or 0 for t in transactions}: one key per
\* transaction_type that has a row
crud_get_monthly_summary(db, user_id, month) ==
    LET rows == SummaryRows(db, user_id, month)
        types == {t.transaction_type : t \in rows}
    IN  [ty \in types |->
            SumAmount({t \in rows : t.transaction_type = ty})]

\* variant: the filter on transaction_type is missing
BreakdownRows_anyType(db, user_id, month) ==
    {t \in Rows(db) : /\ t.user_id = user_id
                      /\ (month # NULL_DATE => strftime_Ym(t.date) = month)}

\* the rows of the breakdown query: the owner's expenses, in the month when
\* one is given (month = NULL_DATE stands for month=None)
BreakdownRows(db, user_id, month) ==
    {t \in Rows(db) : /\ t.user_id = user_id
                      /\ t.transaction_type = "expense"
                      /\ (month # NULL_DATE => strftime_Ym(t.date) = month)}

\* variant: every expense category of the form is listed, with 0 when it has
\* no row
crud_get_category_breakdown_zeroFilled(db, user_id, month) ==
    LET rows == BreakdownRows(db, user_id, month)
    IN  {[category |-> c,
          total |-> SumAmount({t \in rows : t.category = c})] :
            c \in Catalog["expense"] \cup {t.category : t \in rows}}

\* one (category, total) row per category that has a row
crud_get_category_breakdown(db, user_id, month) ==
    LET rows == BreakdownRows(db, user_id, month)
    IN  {[category |-> c,
          total |-> SumAmount({t \in rows : t.category = c})] :
            c \in {t.category : t \in rows}}

\* ------------------------------------------------------------------ api

\* variant: a missing key gives -1, the default is not used
DictGet_noDefault(d, key, default) == IF key \in DOMAIN d THEN d[key] ELSE -1

\* summary.get(key, 0)
DictGet(d, key, default) == IF key \in DOMAIN d THEN d[key] ELSE default

\* variant: the expense is added
BalanceOf_mut(summary) ==
    DictGet(summary, "income", 0) + DictGet(summary, "expense", 0)

\* summary.get("income", 0) - summary.get("expense", 0)
BalanceOf(summary) ==
    DictGet(summary, "income", 0) - DictGet(summary, "expense", 0)

\* the body of GET /analytics/monthly-summary/{month}
monthly_summary_body(db, user_id, month) ==
    LET summary == crud_get_monthly_summary(db, user_id, month)
    IN  [month |-> month,
         income |-> DictGet(summary, "income", 0),
         expense |-> DictGet(summary, "expense", 0),
         balance |-> BalanceOf(summary)]

\* the body of GET /analytics/category-breakdown
category_breakdown_body(db, user_id, month) ==
    crud_get_category_breakdown(db, user_id, month)

NoCard == [rendered |-> FALSE]

Respond(op, user_id, status, body) ==
    [op |-> op, user_id |-> user_id, status |-> status, body |-> body]

\* the answer to a request on /transactions/{transaction_id}
RespondAt(op, user_id, transaction_id, status, body) ==
    [op |-> op, user_id |-> user_id, transaction_id |-> transaction_id,
     status |-> status, body |-> body]

\* POST /transactions/: a body the schema rejects is answered 422 before the
\* handler runs; the answer is the row after db.refresh
create_transaction(current_user, body, now) ==
    IF TransactionCreate_accepts(body)
    THEN /\ transactions' = crud_create_transaction(
                                transactions, TransactionCreate(body),
                                current_user, now)
         /\ response' = Respond("create_transaction", current_user, 200,
                                transactions'[crud_new_transaction_id(
                                    transactions, TransactionCreate(body))])
         /\ UNCHANGED <<budgets, card, accounts>>
    ELSE /\ response' = Respond("create_transaction", current_user, 422,
                                "Unprocessable Entity")
         /\ UNCHANGED <<transactions, budgets, card, accounts>>

\* PUT /transactions/{transaction_id}: the row is committed before the answer
\* is checked against the response_model
update_transaction(current_user, transaction_id, body) ==
    /\ transactions' = crud_update_transaction(transactions, transaction_id,
                                               TransactionUpdate(body),
                                               current_user)
    /\ response' =
        IF crud_find_transaction(transactions, transaction_id,
                                 current_user) = {}
        THEN RespondAt("update_transaction", current_user, transaction_id,
                       404, "Transaction not found")
        ELSE IF Transaction_accepts(transactions'[transaction_id])
        THEN RespondAt("update_transaction", current_user, transaction_id,
                       200, transactions'[transaction_id])
        ELSE RespondAt("update_transaction", current_user, transaction_id,
                       500, "Internal Server Error")
    /\ UNCHANGED <<budgets, card, accounts>>

\* DELETE /transactions/{transaction_id}
delete_transaction(current_user, transaction_id) ==
    /\ transactions' = crud_delete_transaction(transactions, transaction_id,
                                               current_user)
    /\ response' =
        IF crud_find_transaction(transactions, transaction_id,
                                 current_user) = {}
        THEN RespondAt("delete_transaction", current_user, transaction_id,
                       404, "Transaction not found")
        ELSE RespondAt("delete_transaction", current_user, transaction_id,
                       200, "Transaction deleted successfully")
    /\ UNCHANGED <<budgets, card, accounts>>

\* GET /transactions/: every row of the answer is checked against the
\* response_model
read_transactions(current_user, skip, limit) ==
    /\ LET rows == crud_get_transactions(transactions, current_user,
                                         skip, limit)
       IN  response' =
            IF \A i \in 1..Len(rows) : Transaction_accepts(rows[i])
            THEN Respond("read_transactions", current_user, 200, rows)
            ELSE Respond("read_transactions", current_user, 500,
                         "Internal Server Error")
    /\ UNCHANGED <<transactions, budgets, card, accounts>>

\* variant: the query removes the rows of the other months from the table
get_monthly_summary_pruning(current_user, month) ==
    /\ response' = Respond("get_monthly_summary", current_user, 200,
                           monthly_summary_body(transactions, current_user,
                                                month))
    /\ transactions' =
        [i \in {j \in DOMAIN transactions :
                    strftime_Ym(transactions[j].date) = month} |->
            transactions[i]]
    /\ UNCHANGED <<budgets, card, accounts>>

\* GET /analytics/monthly-summary/{month}
get_monthly_summary(current_user, month) ==
    /\ response' = Respond("get_monthly_summary", current_user, 200,
                           monthly_summary_body(transactions, current_user,
                                                month))
    /\ UNCHANGED <<transactions, budgets, card, accounts>>

\* GET /analytics/category-breakdown
get_category_breakdown(current_user, month) ==
    /\ response' = Respond("get_category_breakdown", current_user, 200,
                           [month |-> month,
                            rows |-> category_breakdown_body(
                                        transactions, current_user, month)])
    /\ UNCHANGED <<transactions, budgets, card, accounts>>

\* GET /analytics/budgets, as APIClient.get_budgets calls it
get_budgets(current_user) ==
    /\ response' = Respond("get_budgets", current_user, 200,
                           crud_get_budgets(budgets, current_user))
    /\ UNCHANGED <<transactions, budgets, card, accounts>>

\* POST /analytics/budgets, as APIClient.add_budget calls it
create_budget(current_user, budget) ==
    /\ budgets' = crud_create_budget(budgets, budget, current_user)
    /\ response' = Respond("create_budget", current_user, 200,
                           budgets'[NextId(budgets)])
    /\ UNCHANGED <<transactions, card, accounts>>

\* ------------------------------------------------------------------ users

\* the threads that serve register requests side by side
Workers == {"w1", "w2"}

NoUser == [email |-> "", username |-> ""]

\* a worker without a request
Idle == [pc |-> "idle", user |-> NoUser]

get_user_by_email(db, email) == {i \in DOMAIN db : db[i].email = email}

get_user_by_username(db, username) ==
    {i \in DOMAIN db : db[i].username = username}

\* variant: the table has no unique index
unique_accepts_noIndex(db, user) == TRUE

\* unique=True on User.email and on User.username: whether the INSERT of the
\* row passes the two unique indexes
unique_accepts(db, user) ==
    /\ get_user_by_email(db, user.email) = {}
    /\ get_user_by_username(db, user.username) = {}

\* create_user: the table after db.add and db.commit; the commit fails and
\* nothing is stored when a unique index refuses the row
crud_create_user(db, user) ==
    IF unique_accepts(db, user)
    THEN LET id == NextId(db)
             row == [id |-> id, email |-> user.email,
                     username |-> user.username, is_active |-> TRUE]
         IN  [i \in DOMAIN db \cup {id} |-> IF i = id THEN row ELSE db[i]]
    ELSE db

\* the answer to POST /users/register
RespondRegister(user, status, body) ==
    [op |-> "register", user_id |-> 0, request |-> user,
     status |-> status, body |-> body]

\* register, first statement: a request arrives at a free worker and looks
\* its email up
register_check_email(w, user) ==
    /\ registering[w].pc = "idle"
    /\ IF get_user_by_email(users, user.email) # {}
       THEN /\ response' = RespondRegister(user, 400,
                                           "Email already registered")
            /\ UNCHANGED registering
       ELSE /\ registering' =
                [registering EXCEPT ![w] =
                    [pc |-> "check_username", user |-> user]]
            /\ UNCHANGED response
    /\ UNCHANGED <<transactions, budgets, card, users, session>>

\* register, second statement: the username is looked up
register_check_username(w) ==
    /\ registering[w].pc = "check_username"
    /\ IF get_user_by_username(users, registering[w].user.username) # {}
       THEN /\ response' = RespondRegister(registering[w].user, 400,
                                           "Username already taken")
            /\ registering' = [registering EXCEPT ![w] = Idle]
       ELSE /\ registering' =
                [registering EXCEPT ![w].pc = "create_user"]
            /\ UNCHANGED response
    /\ UNCHANGED <<transactions, budgets, card, users, session>>

\* register, last statement: crud.create_user; an IntegrityError of the
\* commit is not caught and is answered 500
register_create_user(w) ==
    /\ registering[w].pc = "create_user"
    /\ users' = crud_create_user(users, registering[w].user)
    /\ response' =
        IF users' # users
        THEN RespondRegister(registering[w].user, 200,
                             users'[NextId(users)])
        ELSE RespondRegister(registering[w].user, 500,
                             "Internal Server Error")
    /\ registering' = [registering EXCEPT ![w] = Idle]
    /\ UNCHANGED <<transactions, budgets, card, session>>

\* ------------------------------------------------------------------ session_manager.py

\* SessionManager.__init__ on a new session
NewSession ==
    [authenticated |-> FALSE, username |-> NULL_TEXT, token |-> NULL_TEXT]

\* variant: logout leaves the token in the session
LoggedOut_keepsToken(s) ==
    [authenticated |-> FALSE, username |-> NULL_TEXT, token |-> s.token]

\* the session after SessionManager.logout
LoggedOut(s) ==
    [authenticated |-> FALSE, username |-> NULL_TEXT, token |-> NULL_TEXT]

\* SessionManager.login
SessionManager_login(username, token) ==
    /\ session' = [authenticated |-> TRUE, username |-> username,
                   token |-> token]
    /\ UNCHANGED <<transactions, budgets, response, card, users, registering>>

\* SessionManager.logout
SessionManager_logout ==
    /\ session' = LoggedOut(session)
    /\ UNCHANGED <<transactions, budgets, response, card, users, registering>>

\* ------------------------------------------------------------------ cards.py

\* A percentage or a ratio is the exact fraction num/den with den > 0.
Frac(num, den) == [num |-> num, den |-> den]
FracLeq(f, k) == f.num <= k * f.den
FracGt(f, k) == f.num > k * f.den
FracEq(f, k) == f.num = k * f.den

Green == "#28a745"
Yellow == "#ffc107"
Red == "#dc3545"

\* variant: the percentage is capped at 100, as the width of the bar is
card_percentage_capped(spent, budget) ==
    IF budget > 0
    THEN IF spent > budget THEN Frac(100, 1) ELSE Frac(spent * 100, budget)
    ELSE Frac(0, 1)

\* variant: the guard is budget != 0
card_percentage_unguarded(spent, budget) ==
    IF budget > 0 THEN Frac(spent * 100, budget)
    ELSE IF budget < 0 THEN Frac(-(spent * 100), -budget)
    ELSE Frac(0, 1)

\* percentage = (spent / budget * 100) if budget > 0 else 0
card_percentage(spent, budget) ==
    IF budget > 0 THEN Frac(spent * 100, budget) ELSE Frac(0, 1)

\* variant: remaining is clamped at 0
card_remaining_clamped(spent, budget) ==
    IF budget - spent < 0 THEN 0 ELSE budget - spent

\* remaining = budget - spent
card_remaining(spent, budget) == budget - spent

\* variant: the comparisons are strict
card_progress_color_strict(percentage) ==
    IF FracLeq(percentage, 50) /\ ~FracEq(percentage, 50) THEN Green
    ELSE IF FracLeq(percentage, 80) /\ ~FracEq(percentage, 80) THEN Yellow
    ELSE Red

\* if percentage <= 50: green; elif percentage <= 80: yellow; else: red
card_progress_color(percentage) ==
    IF FracLeq(percentage, 50) THEN Green
    ELSE IF FracLeq(percentage, 80) THEN Yellow
    ELSE Red

create_budget_progress_card(category, spent, budget, period) ==
    [rendered |-> TRUE,
     category |-> category,
     spent |-> spent,
     budget |-> budget,
     period |-> period,
     percentage |-> card_percentage(spent, budget),
     remaining |-> card_remaining(spent, budget),
     progress_color |-> card_progress_color(card_percentage(spent, budget))]

\* the card the budget page asks for, one per budget
budget_card(category, budget_amount, spent_amount, month) ==
    create_budget_progress_card(category, spent_amount, budget_amount, month)

\* ------------------------------------------------------------------ 3_Budget.py

\* variant: budgets of the same category, month and amount are counted once
SumSeqAmount_merged(rows) ==
    SumAmount({[category |-> rows[i].category, month |-> rows[i].month,
                amount |-> rows[i].amount] : i \in 1..Len(rows)})

RECURSIVE SumSeqAmount(_)
\* sum(b['amount'] for b in budgets)
SumSeqAmount(rows) ==
    IF rows = <<>> THEN 0
    ELSE Head(rows).amount + SumSeqAmount(Tail(rows))

RECURSIVE SumValues(_)
\* sum(d.values())
SumValues(d) ==
    IF DOMAIN d = {} THEN 0
    ELSE LET k == CHOOSE x \in DOMAIN d : TRUE
         IN  d[k] + SumValues([x \in DOMAIN d \ {k} |-> d[x]])

\* {item['category']: item['total'] for item in category_breakdown}
expense_by_category_of(category_breakdown) ==
    [c \in {item.category : item \in category_breakdown} |->
        (CHOOSE item \in category_breakdown : item.category = c).total]

\* variant: one card per (category, month), later duplicates are dropped
budget_cards_merged(budget_list, expense_by_category) ==
    LET keys == {<<budget_list[i].category, budget_list[i].month>> :
                    i \in 1..Len(budget_list)}
    IN  [idx \in 1..Cardinality(keys) |->
            budget_card(budget_list[idx].category,
                        budget_list[idx].amount,
                        DictGet(expense_by_category,
                                budget_list[idx].category, 0),
                        budget_list[idx].month)]

\* the cards: spent = expense_by_category.get(budget['category'], 0)
budget_cards(budget_list, expense_by_category) ==
    [idx \in 1..Len(budget_list) |->
        budget_card(budget_list[idx].category,
                    budget_list[idx].amount,
                    DictGet(expense_by_category, budget_list[idx].category, 0),
                    budget_list[idx].month)]

\* total_spent = sum(expense_by_category.values())
page_total_spent(expense_by_category) ==
    SumValues(expense_by_category)

\* remaining = total_budget - total_spent
summary_remaining(total_budget, total_spent) == total_budget - total_spent

\* progress = min(total_spent / total_budget, 1.0) if total_budget > 0 else 0
summary_progress(total_budget, total_spent) ==
    IF total_budget > 0
    THEN IF total_spent < total_budget THEN Frac(total_spent, total_budget)
         ELSE Frac(1, 1)
    ELSE Frac(0, 1)

\* if progress > 0.9: warning; elif progress > 1.0: error
summary_alert(progress) ==
    IF 10 * progress.num > 9 * progress.den THEN "warning"
    ELSE IF progress.num > progress.den THEN "error"
    ELSE "none"

\* the "Budget Summary" block, from the two totals
budget_summary(total_budget, total_spent) ==
    LET remaining == summary_remaining(total_budget, total_spent)
        progress == summary_progress(total_budget, total_spent)
    IN  [total_budget |-> total_budget,
         total_spent |-> total_spent,
         remaining |-> remaining,
         delta |-> IF total_budget > 0
                   THEN [percent_left |-> Frac(remaining * 100, total_budget),
                         text |-> "% left"]
                   ELSE [percent_left |-> Frac(0, 1), text |-> "0%"],
         progress |-> progress,
         alert |-> summary_alert(progress)]

\* what the page shows for the budgets and the breakdown it fetched
budget_page_body(budget_list, category_breakdown) ==
    LET expense_by_category == expense_by_category_of(category_breakdown)
    IN  [cards |-> budget_cards(budget_list, expense_by_category),
         summary |->
            IF budget_list # <<>>
            THEN <<budget_summary(
                        SumSeqAmount(budget_list),
                        page_total_spent(expense_by_category))>>
            ELSE <<>>]

\* a run of the page for the logged-in user; current_month is
\* datetime.now().strftime("%Y-%m")
budget_page(current_user, now) ==
    LET current_month == strftime_Ym(now)
    IN  /\ response' = Respond("budget_page", current_user, 200,
                [current_month |-> current_month,
                 page |-> budget_page_body(
                            crud_get_budgets(budgets, current_user),
                            category_breakdown_body(transactions, current_user,
                                                    current_month))])
        /\ UNCHANGED <<transactions, budgets, card, accounts>>

\* ------------------------------------------------------------------ ledger

EmptyTable == [i \in {} |-> 0]

NoResponse == Respond("none", 0, 0, "")

\* no user, no register request in flight, a new browser session
InitAccounts ==
    /\ users = EmptyTable
    /\ registering = [w \in Workers |-> Idle]
    /\ session = NewSession

Init ==
    /\ transactions = EmptyTable
    /\ budgets = EmptyTable
    /\ response = NoResponse
    /\ card = NoCard
    /\ InitAccounts

\* TransactionCreate bodies
TxInputs ==
    {t \in [amount : Amounts, category : Categories, description : {"-"},
            transaction_type : Types, date : Dates \cup {NULL_DATE}] :
        t.category \in Catalog[t.transaction_type]}

\* TransactionUpdate bodies: the fields that were set
TxUpdates ==
    {[amount |-> -50], [date |-> <<2024, 2, 1>>],
     [category |-> "Salary", transaction_type |-> "income"]}

Next ==
    \/ \E u \in Users, t \in TxInputs :
        /\ NextId(transactions) <= MaxTx
        /\ create_transaction(u, t, Today)
    \/ \E u \in Users, i \in 1..MaxTx, t \in TxUpdates :
        update_transaction(u, i, t)
    \/ \E u \in Users, i \in 1..MaxTx :
        delete_transaction(u, i)
    \/ \E u \in Users : read_transactions(u, 0, 100)
    \/ \E u \in Users, m \in MonthKeys : get_monthly_summary(u, m)
    \/ \E u \in Users, m \in MonthKeys \cup {NULL_DATE} :
        get_category_breakdown(u, m)

Spec == Init /\ [][Next]_vars

\* ------------------------------------------------------------------ two owners

OwnTxInputs ==
    [amount : {100}, category : {"Food"}, description : {"-"},
     transaction_type : Types, date : {<<2024, 1, 31>>}]

OwnTxUpdates == {[transaction_type |-> "expense"], [transaction_type |-> "income"]}

OwnBudgetInputs == [category : {"Food"}, amount : {200}, month : {<<2024, 1>>}]

NextOwners ==
    \/ \E u \in Users, t \in OwnTxInputs :
        /\ NextId(transactions) <= MaxOwnTx
        /\ create_transaction(u, t, Today)
    \/ \E u \in Users, i \in 1..MaxOwnTx, t \in OwnTxUpdates :
        update_transaction(u, i, t)
    \/ \E u \in Users, i \in 1..MaxOwnTx :
        delete_transaction(u, i)
    \/ \E u \in Users, b \in OwnBudgetInputs :
        /\ NextId(budgets) <= MaxOwnBudgets
        /\ create_budget(u, b)
    \/ \E u \in Users : read_transactions(u, 0, 100)
    \/ \E u \in Users : get_budgets(u)
    \/ \E u \in Users, m \in MonthKeys : get_monthly_summary(u, m)
    \/ \E u \in Users, m \in MonthKeys \cup {NULL_DATE} :
        get_category_breakdown(u, m)

SpecOwners == Init /\ [][NextOwners]_vars

\* ------------------------------------------------------------------ budget page

PageUsers == {1}

PageTxInputs ==
    [amount : {150}, category : Catalog["expense"], description : {"-"},
     transaction_type : {"expense"}, date : Dates]

PageBudgetInputs ==
    [category : Catalog["expense"], amount : {0, 200}, month : MonthKeys]

NextBudget ==
    \/ \E u \in PageUsers, t \in PageTxInputs :
        /\ NextId(transactions) <= MaxPageTx
        /\ create_transaction(u, t, Today)
    \/ \E u \in PageUsers, b \in PageBudgetInputs :
        /\ NextId(budgets) <= MaxPageBudgets
        /\ create_budget(u, b)
    \/ \E u \in PageUsers : get_budgets(u)
    \/ \E u \in PageUsers, now \in Dates : budget_page(u, now)

SpecBudget == Init /\ [][NextBudget]_vars

\* ------------------------------------------------------------------ progress

CardSpent == {-50, 0, 35, 50, 51, 70, 71, 80, 81, 90, 91, 100, 150, 300}
CardBudget == {-100, 0, 100, 200}

InitProgress ==
    /\ transactions = EmptyTable
    /\ budgets = EmptyTable
    /\ response = NoResponse
    /\ card \in [rendered : {FALSE}, category : {"Food"}, spent : CardSpent,
                 budget : CardBudget, period : {"monthly"}]
    /\ InitAccounts

\* the card is rendered for the drawn category, spent and budget
render_card ==
    /\ ~card.rendered
    /\ card' = create_budget_progress_card(card.category, card.spent,
                                           card.budget, card.period)
    /\ UNCHANGED <<transactions, budgets, response, accounts>>

\* the summary block is rendered for the drawn totals
render_summary ==
    /\ response.op = "none"
    /\ response' = Respond("budget_summary", 0, 200,
                           budget_summary(card.budget, card.spent))
    /\ UNCHANGED <<transactions, budgets, card, accounts>>

NextProgress == render_card \/ render_summary

SpecProgress == InitProgress /\ [][NextProgress]_vars

\* ------------------------------------------------------------------ write path

\* request bodies of POST /transactions/: a valid one, one with a
\* transaction_type outside the two values, one that carries an id of the
\* client's choosing, and one without the required amount
WriteTxInputs ==
    {[amount |-> 100, category |-> "Food", description |-> "-",
      transaction_type |-> "expense", date |-> <<2024, 1, 31>>],
     [amount |-> 100, category |-> "Food", description |-> "-",
      transaction_type |-> "transfer", date |-> <<2024, 1, 31>>],
     [id |-> 7, amount |-> 77, category |-> "Food", description |-> "-",
      transaction_type |-> "income", date |-> <<2024, 1, 31>>],
     [category |-> "Food", transaction_type |-> "expense"]}

\* request bodies of PUT /transactions/{id}: a transaction_type outside the
\* two values, a valid one, and one that names another id and owner
WriteTxUpdates ==
    {[transaction_type |-> "transfer"],
     [transaction_type |-> "income"],
     [id |-> 7, user_id |-> 2, amount |-> 55]}

NextWrite ==
    \/ \E u \in Users, t \in WriteTxInputs :
        /\ NextId(transactions) <= MaxWriteTx
        /\ create_transaction(u, t, Today)
    \/ \E u \in Users, i \in 1..MaxWriteTx, t \in WriteTxUpdates :
        update_transaction(u, i, t)
    \/ \E u \in Users, i \in 1..MaxWriteTx :
        delete_transaction(u, i)
    \/ \E u \in Users : read_transactions(u, 0, 100)

SpecWrite == Init /\ [][NextWrite]_vars

\* ------------------------------------------------------------------ queries

\* writes to both tables, each followed by any of the aggregate queries
QueryTxInputs ==
    {[amount |-> 100, category |-> "Food", description |-> "-",
      transaction_type |-> "expense", date |-> <<2024, 1, 31>>],
     [amount |-> 30, category |-> "Food", description |-> "-",
      transaction_type |-> "expense", date |-> <<2024, 2, 1>>],
     [amount |-> 100, category |-> "Salary", description |-> "-",
      transaction_type |-> "income", date |-> <<2024, 2, 1>>]}

QueryTxUpdates == {[amount |-> 30]}

QueryBudgetInputs ==
    [category : Catalog["expense"], amount : {200}, month : {<<2024, 2>>}]

NextQuery ==
    \/ \E u \in PageUsers, t \in QueryTxInputs :
        /\ NextId(transactions) <= MaxQueryTx
        /\ create_transaction(u, t, Today)
    \/ \E u \in PageUsers, i \in 1..MaxQueryTx, t \in QueryTxUpdates :
        update_transaction(u, i, t)
    \/ \E u \in PageUsers, i \in 1..MaxQueryTx :
        delete_transaction(u, i)
    \/ \E u \in PageUsers, b \in QueryBudgetInputs :
        /\ NextId(budgets) <= MaxQueryBudgets
        /\ create_budget(u, b)
    \/ \E u \in PageUsers, m \in MonthKeys : get_monthly_summary(u, m)
    \/ \E u \in PageUsers, m \in MonthKeys \cup {NULL_DATE} :
        get_category_breakdown(u, m)
    \/ \E u \in PageUsers, now \in Dates : budget_page(u, now)

SpecQuery == Init /\ [][NextQuery]_vars

\* ------------------------------------------------------------------ accounts

\* UserCreate bodies
UserInputs == [email : {"a@x.org", "b@x.org"}, username : {"ann", "bob"}]

\* what the login form passes on: the name typed in and the token of /token
Usernames == {"ann", "bob"}
Tokens == {"t1", "t2"}

NextAccounts ==
    \/ \E w \in Workers, user \in UserInputs :
        /\ NextId(users) <= MaxUsers
        /\ register_check_email(w, user)
    \/ \E w \in Workers : register_check_username(w)
    \/ \E w \in Workers : register_create_user(w)
    \/ \E username \in Usernames, token \in Tokens :
        SessionManager_login(username, token)
    \/ SessionManager_logout

SpecAccounts == Init /\ [][NextAccounts]_vars

\* ------------------------------------------------------------------ properties

\* the table without the rows of other months
OnlyMonth(db, month) ==
    [i \in {j \in DOMAIN db : strftime_Ym(db[j].date) = month} |-> db[i]]

\* the table without the rows of other owners
OnlyOwner(db, user_id) ==
    [i \in {j \in DOMAIN db : db[j].user_id = user_id} |-> db[i]]

OwnerRows(user_id) == {t \in Rows(transactions) : t.user_id = user_id}

\* C1: in every monthly summary returned, for every owner and month, balance
\* is income minus expense, the two totals of the same response.
C1_BalanceIdentity ==
    /\ response.op = "get_monthly_summary" =>
        response.body.balance = response.body.income - response.body.expense
    /\ \A u \in Users, m \in MonthKeys :
        LET body == monthly_summary_body(transactions, u, m)
        IN  body.balance = body.income - body.expense

C1_Witness ==
    /\ response.op = "get_monthly_summary"
    /\ response.body.income # 0
    /\ response.body.expense # 0
    /\ response.body.balance # response.body.income

\* C2: the summary and the breakdown of month m are the ones computed over
\* the store with every transaction of another month removed.
C2_PeriodIsolation ==
    /\ response.op = "get_monthly_summary" =>
        response.body =
            monthly_summary_body(OnlyMonth(transactions, response.body.month),
                                 response.user_id, response.body.month)
    /\ (response.op = "get_category_breakdown"
            /\ response.body.month # NULL_DATE) =>
        response.body.rows =
            category_breakdown_body(OnlyMonth(transactions, response.body.month),
                                    response.user_id, response.body.month)

C2_Witness ==
    /\ response.op = "get_monthly_summary"
    /\ response.body.expense # 0
    /\ \E t \in OwnerRows(response.user_id) :
        /\ strftime_Ym(t.date) # response.body.month
        /\ t.transaction_type = "expense"

\* what owner u reads from the two tables
ReadsIn(u, txdb, bdb) ==
    [transactions |-> crud_get_transactions(txdb, u, 0, 100),
     budgets |-> crud_get_budgets(bdb, u),
     summary |-> [m \in MonthKeys |-> monthly_summary_body(txdb, u, m)],
     breakdown |-> [m \in MonthKeys \cup {NULL_DATE} |->
                        category_breakdown_body(txdb, u, m)]]

ReadsOf(u) == ReadsIn(u, transactions, budgets)

\* the rows of owner u in the two tables
OwnRecords(u) == <<OnlyOwner(transactions, u), OnlyOwner(budgets, u)>>

\* C3: what owner u reads (transactions, budgets, summaries, breakdowns) is
\* what u would read from a store holding u's rows only, and a request made
\* by another owner leaves u's rows, hence u's reads, as they were.
C3_NoCrossOwnerLeakage ==
    /\ [](\A u \in Users :
            ReadsOf(u) = ReadsIn(u, OnlyOwner(transactions, u),
                                 OnlyOwner(budgets, u)))
    /\ [][\A u \in Users :
            response'.user_id # u => OwnRecords(u)' = OwnRecords(u)]_vars

C3_Witness ==
    /\ response.op \in {"create_transaction", "update_transaction",
                        "delete_transaction"}
    /\ response.status = 200
    /\ response.user_id = 2
    /\ OwnerRows(1) # {}
    /\ OwnerRows(2) # {}
    /\ \E i \in DOMAIN budgets : budgets[i].user_id = 1
    /\ \E i \in DOMAIN budgets : budgets[i].user_id = 2

\* C4: a summary of a month in which the owner has no transaction is
\* income 0, expense 0, balance 0, returned as a normal result.
C4_EmptyMonthIsZero ==
    (/\ response.op = "get_monthly_summary"
     /\ ~\E t \in OwnerRows(response.user_id) :
            strftime_Ym(t.date) = response.body.month)
    => /\ response.status = 200
       /\ response.body.income = 0
       /\ response.body.expense = 0
       /\ response.body.balance = 0

C4_Witness ==
    /\ response.op = "get_monthly_summary"
    /\ OwnerRows(response.user_id) # {}
    /\ \A t \in OwnerRows(response.user_id) :
        strftime_Ym(t.date) # response.body.month
    /\ \E t \in Rows(transactions) :
        /\ t.user_id # response.user_id
        /\ strftime_Ym(t.date) = response.body.month

\* the three tiers of the card, lowest first
StatusOf(progress_color) ==
    IF progress_color = Green THEN "ok"
    ELSE IF progress_color = Yellow THEN "warning"
    ELSE "over"

\* C5: with a limit of zero or less the card shows 0 percent used and the
\* lowest status whatever was spent, no division takes place, and the
\* summary block of the page shows a progress of 0 when total_budget <= 0.
C5_ZeroLimitSafe ==
    /\ card.rendered => card.percentage.den > 0
    /\ (card.rendered /\ card.budget <= 0) =>
        /\ FracEq(card.percentage, 0)
        /\ StatusOf(card.progress_color) = "ok"
    /\ response.op = "budget_summary" =>
        /\ response.body.progress.den > 0
        /\ response.body.delta.percent_left.den > 0
    /\ (response.op = "budget_summary" /\ response.body.total_budget <= 0) =>
        /\ FracEq(response.body.progress, 0)
        /\ response.body.delta.text = "0%"

C5_Witness ==
    /\ card.rendered
    /\ card.budget = 0
    /\ card.spent = 300
    /\ response.op = "budget_summary"
    /\ response.body.total_budget = 0

C7_OverBudget ==
    card.rendered =>
        /\ (card.budget = 200 /\ card.spent = 300) =>
            /\ card.remaining = -100
            /\ FracEq(card.percentage, 150)
            /\ StatusOf(card.progress_color) = "over"
        /\ (card.budget > 0 /\ card.spent > card.budget) =>
            /\ FracGt(card.percentage, 100)
            /\ card.remaining < 0
            /\ StatusOf(card.progress_color) = "over"

C7_Witness ==
    /\ card.rendered
    /\ card.budget = 200
    /\ card.spent = 300
    /\ card.remaining = -100

\* C8: remaining is the limit minus what was spent, negative when more was
\* spent, on the card and in the summary block alike.
C8_RemainingIsLimitMinusSpent ==
    /\ card.rendered => card.remaining = card.budget - card.spent
    /\ response.op = "budget_summary" =>
        response.body.remaining =
            response.body.total_budget - response.body.total_spent

C8_Witness ==
    /\ card.rendered
    /\ card.spent > card.budget
    /\ card.remaining < 0
    /\ response.op = "budget_summary"
    /\ response.body.remaining < 0

\* the expense total of a category in a month, 0 when it has none
ExpenseIn(user_id, category, month) ==
    DictGet(expense_by_category_of(
                crud_get_category_breakdown(transactions, user_id, month)),
            category, 0)

\* C9: the spent value on the card of budget b is the expense total of
\* b.category in b.month, and 0 when there is none.
C9_SpentIsOfBudgetMonth ==
    response.op = "budget_page" =>
        LET budget_list == crud_get_budgets(budgets, response.user_id)
        IN  \A idx \in 1..Len(budget_list) :
                response.body.page.cards[idx].spent =
                    ExpenseIn(response.user_id, budget_list[idx].category,
                              budget_list[idx].month)

RECURSIVE SumSpent(_)
SumSpent(cards) ==
    IF cards = <<>> THEN 0 ELSE Head(cards).spent + SumSpent(Tail(cards))

\* C10: total_spent of the summary block is the sum of the spent values of
\* the cards.
C10_TotalSpentIsSumOfCards ==
    (response.op = "budget_page" /\ response.body.page.summary # <<>>) =>
        response.body.page.summary[1].total_spent =
            SumSpent(response.body.page.cards)

\* the budget rows of an owner
OwnerBudgets(user_id) == {b \in Rows(budgets) : b.user_id = user_id}

\* C11: in the summary block of the budget page, total_budget is the sum of
\* amount over all budget rows of the owner, every row counted once even when
\* two rows have the same category and month, and remaining is total_budget
\* minus total_spent.
C11_RollupTotals ==
    (response.op = "budget_page" /\ response.body.page.summary # <<>>) =>
        LET summary == response.body.page.summary[1]
        IN  /\ summary.total_budget =
                SumAmount(OwnerBudgets(response.user_id))
            /\ summary.remaining = summary.total_budget - summary.total_spent

C11_Witness ==
    /\ response.op = "budget_page"
    /\ response.body.page.summary # <<>>
    /\ response.body.page.summary[1].total_budget = 400
    /\ response.body.page.summary[1].total_spent = 150
    /\ response.body.page.summary[1].remaining = 250
    /\ \E b1, b2 \in OwnerBudgets(response.user_id) :
        /\ b1.id # b2.id
        /\ b1.category = b2.category
        /\ b1.month = b2.month

\* C12: the page shows one card per stored budget of the owner, in the order
\* of the rows, also when several budgets have the same category and month;
\* the request ends normally.
C12_DuplicatesAreIndependent ==
    response.op = "budget_page" =>
        LET budget_list == crud_get_budgets(budgets, response.user_id)
            cards == response.body.page.cards
        IN  /\ response.status = 200
            /\ Len(cards) = Cardinality(OwnerBudgets(response.user_id))
            /\ Len(cards) = Len(budget_list)
            /\ \A idx \in 1..Len(cards) :
                /\ cards[idx].category = budget_list[idx].category
                /\ cards[idx].budget = budget_list[idx].amount
                /\ cards[idx].period = budget_list[idx].month

C12_Witness ==
    /\ response.op = "budget_page"
    /\ Len(response.body.page.cards) = 2
    /\ response.body.page.cards[1].category = response.body.page.cards[2].category
    /\ response.body.page.cards[1].period = response.body.page.cards[2].period
    /\ response.body.page.cards[1].budget # response.body.page.cards[2].budget

\* C13 as stated: the store holds at most one budget per (owner, category,
\* month).
C13_OneBudgetPerKey ==
    \A i, j \in DOMAIN budgets :
        (/\ budgets[i].user_id = budgets[j].user_id
         /\ budgets[i].category = budgets[j].category
         /\ budgets[i].month = budgets[j].month) => i = j

\* the expense transactions of an owner in a category, of one month or, with
\* month = NULL_DATE, of all months
MatchingExpenses(user_id, category, month) ==
    {t \in OwnerRows(user_id) :
        /\ t.transaction_type = "expense"
        /\ t.category = category
        /\ (month # NULL_DATE => strftime_Ym(t.date) = month)}

\* C14: every total of a category breakdown is the sum of amount over the
\* owner's expense transactions of that category, of the month asked for or
\* of all months when none is asked for; there is one row per category and
\* an income transaction adds to no total.
C14_BreakdownSumsExpenses ==
    response.op = "get_category_breakdown" =>
        /\ \A row \in response.body.rows :
            row.total = SumAmount(MatchingExpenses(response.user_id,
                                                   row.category,
                                                   response.body.month))
        /\ \A r1, r2 \in response.body.rows :
            r1.category = r2.category => r1 = r2

C14_Witness ==
    /\ response.op = "get_category_breakdown"
    /\ response.body.month # NULL_DATE
    /\ response.body.rows = {[category |-> "Food", total |-> 100]}
    /\ \E t1, t2 \in OwnerRows(response.user_id) :
        /\ t1.transaction_type = "income"
        /\ t2.transaction_type = "expense"
        /\ strftime_Ym(t1.date) = response.body.month
        /\ strftime_Ym(t2.date) = response.body.month

\* C15: a category is in the breakdown exactly when the owner has an expense
\* transaction of that category in the scope asked for; a category without
\* one is left out.
C15_OnlyCategoriesWithExpenses ==
    response.op = "get_category_breakdown" =>
        \A c \in Categories :
            (\E row \in response.body.rows : row.category = c)
            <=> MatchingExpenses(response.user_id, c, response.body.month) # {}

C15_Witness ==
    /\ response.op = "get_category_breakdown"
    /\ response.body.month # NULL_DATE
    /\ \E row \in response.body.rows : row.category = "Food"
    /\ ~\E row \in response.body.rows : row.category = "Rent"
    /\ MatchingExpenses(response.user_id, "Rent", NULL_DATE) # {}

\* C16 as stated: every stored transaction has an amount above 0.
C16_AmountIsPositive ==
    \A t \in Rows(transactions) : t.amount > 0

\* C17 as stated: for every owner and month the income and the expense of
\* the summary are 0 or more, and every total of a breakdown is above 0.
C17_TotalsAreMagnitudes ==
    \A u \in Users :
        /\ \A m \in MonthKeys :
            /\ monthly_summary_body(transactions, u, m).income >= 0
            /\ monthly_summary_body(transactions, u, m).expense >= 0
        /\ \A m \in MonthKeys \cup {NULL_DATE} :
            \A row \in category_breakdown_body(transactions, u, m) :
                row.total > 0

\* C18 as stated: every stored transaction has transaction_type 'income' or
\* 'expense', and a create or update answered with an error leaves the store
\* as it was.
C18_TypeIsIncomeOrExpense ==
    \A t \in Rows(transactions) : t.transaction_type \in Types

\* C19: an update leaves the table's ids as they were and every row,
\* the updated one included, with the id and the user_id it had, also when
\* the request body names another id or owner.
C19_UpdateKeepsIdAndOwner ==
    [][response'.op = "update_transaction" =>
        /\ DOMAIN transactions' = DOMAIN transactions
        /\ \A i \in DOMAIN transactions :
            /\ transactions'[i].id = transactions[i].id
            /\ transactions'[i].user_id = transactions[i].user_id
        /\ response'.status = 200 =>
            /\ response'.body.user_id = response'.user_id
            /\ response'.body.id \in DOMAIN transactions
            /\ response'.body = transactions'[response'.body.id]]_vars

C19_Witness ==
    /\ response.op = "update_transaction"
    /\ response.status = 200
    /\ response.body.amount = 55
    /\ response.body.id # 7
    /\ response.body.user_id = 1
    /\ transactions[response.body.id].amount = 55

\* C20: every row is stored under the id the table assigned to it, so no two
\* rows share an id, and a create stores its row under the next id of the
\* table whatever id the request body carried.
C20_IdAssignedByStore ==
    /\ [](\A i \in DOMAIN transactions : transactions[i].id = i)
    /\ [][(response'.op = "create_transaction" /\ response'.status = 200) =>
            /\ response'.body.id = NextId(transactions)
            /\ DOMAIN transactions' = DOMAIN transactions
                                        \cup {NextId(transactions)}
            /\ \A i \in DOMAIN transactions :
                transactions'[i] = transactions[i]]_vars

C20_Witness ==
    /\ response.op = "create_transaction"
    /\ response.status = 200
    /\ response.body.amount = 77
    /\ response.body.id = 2
    /\ Cardinality(DOMAIN transactions) = 2

\* C21 as stated: once delete_transaction(id) has answered 200, no later
\* operation brings the id back, so that an update or a delete of it answers
\* 404: the operation that follows the delete leaves the id out of the table.
C21_DeletedIdStaysGone ==
    [][(response.op = "delete_transaction" /\ response.status = 200) =>
        response.transaction_id \notin DOMAIN transactions']_vars

\* the total of one transaction_type of an owner in a month, from the table
\* as it is now
TotalNow(user_id, type, month) ==
    SumAmount({t \in OwnerRows(user_id) :
                /\ t.transaction_type = type
                /\ strftime_Ym(t.date) = month})

\* the breakdown of an owner, from the table as it is now
BreakdownNow(user_id, month) ==
    {[category |-> c, total |-> SumAmount(MatchingExpenses(user_id, c, month))] :
        c \in {k \in Categories : MatchingExpenses(user_id, k, month) # {}}}

\* C22: the summary, the breakdown and the budget page a query returns are
\* the ones computed from the two tables as they are when the query is made,
\* whatever was created, updated or deleted before it.
C22_QueriesReadTheCurrentStore ==
    /\ response.op = "get_monthly_summary" =>
        /\ response.body.income =
            TotalNow(response.user_id, "income", response.body.month)
        /\ response.body.expense =
            TotalNow(response.user_id, "expense", response.body.month)
        /\ response.body.balance =
            response.body.income - response.body.expense
    /\ response.op = "get_category_breakdown" =>
        response.body.rows = BreakdownNow(response.user_id, response.body.month)
    /\ response.op = "budget_page" =>
        LET budget_list == crud_get_budgets(budgets, response.user_id)
            page == response.body.page
        IN  /\ Len(page.cards) = Cardinality(OwnerBudgets(response.user_id))
            /\ \A idx \in 1..Len(page.cards) :
                /\ page.cards[idx].budget = budget_list[idx].amount
                /\ page.cards[idx].spent =
                    SumAmount(MatchingExpenses(response.user_id,
                                               budget_list[idx].category,
                                               response.body.current_month))
            /\ page.summary # <<>> =>
                page.summary[1].total_budget =
                    SumAmount(OwnerBudgets(response.user_id))

\* a summary asked for after an update: only an update gives the January
\* expense the amount 30
C22_Witness ==
    /\ response.op = "get_monthly_summary"
    /\ response.body.month = <<2024, 1>>
    /\ response.body.expense = 30
    /\ Cardinality(DOMAIN transactions) = 2

\* the two aggregate queries of the analytics router
AggregateQueries == {"get_monthly_summary", "get_category_breakdown"}

\* C23: a summary or breakdown query changes no transaction and no budget,
\* and asked again by the same owner for the same month right after itself it
\* returns the same answer.
C23_QueriesArePure ==
    [][response'.op \in AggregateQueries =>
        /\ transactions' = transactions
        /\ budgets' = budgets
        /\ (/\ response.op = response'.op
            /\ response.user_id = response'.user_id
            /\ response.body.month = response'.body.month)
           => response' = response]_vars

C23_Witness ==
    /\ response.op \in AggregateQueries
    /\ response.body.month = <<2024, 2>>
    /\ Cardinality(DOMAIN transactions) = 2
    /\ DOMAIN budgets # {}
    /\ \E t \in OwnerRows(response.user_id) :
        strftime_Ym(t.date) # response.body.month

\* the orders in which the rows of a table can be inserted
Orders(ids) ==
    {order \in [1..Cardinality(ids) -> ids] :
        \A a, b \in 1..Cardinality(ids) : order[a] = order[b] => a = b}

RECURSIVE CreatedInOrder(_)
\* the table made by creating the stored transactions one after the other in
\* the given order, each for its owner and with its stored date
CreatedInOrder(order) ==
    IF order = <<>> THEN EmptyTable
    ELSE LET last == transactions[order[Len(order)]]
         IN  crud_create_transaction(
                CreatedInOrder(SubSeq(order, 1, Len(order) - 1)),
                TransactionCreate(last), last.user_id, Today)

C25_MissingDataIsZero ==
    /\ response.op = "get_monthly_summary" =>
        /\ response.status = 200
        /\ \A ty \in Types :
            (~\E t \in OwnerRows(response.user_id) :
                /\ t.transaction_type = ty
                /\ strftime_Ym(t.date) = response.body.month)
            => response.body[ty] = 0
        /\ response.body.balance = response.body.income - response.body.expense
    /\ response.op = "budget_page" =>
        /\ response.status = 200
        /\ LET budget_list == crud_get_budgets(budgets, response.user_id)
           IN  \A idx \in 1..Len(budget_list) :
                MatchingExpenses(response.user_id, budget_list[idx].category,
                                 response.body.current_month) = {}
                => response.body.page.cards[idx].spent = 0

C25_Witness ==
    /\ response.op = "get_monthly_summary"
    /\ response.body.income = 100
    /\ response.body.expense = 0
    /\ response.body.balance = 100
    /\ \E t \in OwnerRows(response.user_id) : t.transaction_type = "expense"

\* the two requests on /transactions/{transaction_id}
RowRequests == {"update_transaction", "delete_transaction"}

\* C26: an update or a delete of an id that is not in the table, or whose row
\* belongs to another owner than the caller, answers 404 'Transaction not
\* found' and leaves the table as it was; no update or delete changes or
\* removes a row of another owner than the caller.
C26_NotFoundChangesNothing ==
    [][response'.op \in RowRequests =>
        /\ (\/ response'.transaction_id \notin DOMAIN transactions
            \/ transactions[response'.transaction_id].user_id
                # response'.user_id)
           => /\ response'.status = 404
              /\ response'.body = "Transaction not found"
              /\ transactions' = transactions
        /\ \A j \in DOMAIN transactions :
            transactions[j].user_id # response'.user_id =>
                /\ j \in DOMAIN transactions'
                /\ transactions'[j] = transactions[j]]_vars

C26_Witness ==
    /\ response.op \in RowRequests
    /\ response.status = 404
    /\ response.transaction_id \in DOMAIN transactions
    /\ transactions[response.transaction_id].user_id # response.user_id
    /\ \E j \in DOMAIN transactions : j # response.transaction_id

\* C27: an update leaves every other row as it was, and in the row it
\* updates it gives the fields the request sets their new values and leaves
\* every other field as it was.
C27_UpdateSetsOnlyRequestedFields ==
    [][\A u \in Users, i \in 1..MaxWriteTx, b \in WriteTxUpdates :
        (/\ response'.op = "update_transaction"
         /\ response'.user_id = u
         /\ response'.transaction_id = i
         /\ transactions' = crud_update_transaction(
                                transactions, i, TransactionUpdate(b), u))
        =>  /\ DOMAIN transactions' = DOMAIN transactions
            /\ \A j \in DOMAIN transactions :
                j # i => transactions'[j] = transactions[j]
            /\ response'.status # 404 =>
                \A k \in DOMAIN transactions[i] :
                    transactions'[i][k] =
                        IF k \in DOMAIN b \cap SchemaFields THEN b[k]
                        ELSE transactions[i][k]]_vars

C27_Witness ==
    /\ response.op = "update_transaction"
    /\ response.status = 200
    /\ response.body.amount = 55
    /\ response.body.description = "-"
    /\ response.body.transaction_type = "income"
    /\ \E j \in DOMAIN transactions : j # response.transaction_id

\* C30 as stated: in the summary block, with a total_budget above 0, the
\* 'exceeded' error is shown whenever total_spent is above total_budget, and
\* the 'over 90%' warning is shown only for a usage above 90% and not above
\* 100%.
C30_ExceededAlert ==
    (response.op = "budget_summary" /\ response.body.total_budget > 0) =>
        /\ response.body.total_spent > response.body.total_budget =>
            response.body.alert = "error"
        /\ response.body.alert = "warning" =>
            /\ 10 * response.body.total_spent > 9 * response.body.total_budget
            /\ response.body.total_spent <= response.body.total_budget

\* whether a user with the email or the username of a request is stored
AlreadyStored(user) ==
    \/ get_user_by_email(users, user.email) # {}
    \/ get_user_by_username(users, user.username) # {}

\* C28: no two stored users have the same email and no two the same
\* username, however the statements of the register requests interleave; a
\* register request answered while its email or username is stored is
\* answered with an error and stores no user.
C28_UniqueEmailAndUsername ==
    /\ [](\A i, j \in DOMAIN users :
            (\/ users[i].email = users[j].email
             \/ users[i].username = users[j].username) => i = j)
    /\ [][(/\ response'.op = "register"
           /\ \/ response.op # "register"
              \/ response.request # response'.request
              \/ response.status # response'.status
           /\ AlreadyStored(response'.request))
          => /\ response'.status \in {400, 500}
             /\ users' = users]_vars

\* two requests passed both look-ups before either stored its user: the
\* second one is refused by the unique index
C28_Witness ==
    /\ response.op = "register"
    /\ response.status = 500
    /\ AlreadyStored(response.request)
    /\ Cardinality(DOMAIN users) = 1

\* C29: the session starts unauthenticated; while it is unauthenticated its
\* username and token are None, and while it is authenticated they are the
\* username and the token of the last login.
C29_SessionState ==
    /\ session = NewSession
    /\ [](/\ ~session.authenticated =>
                /\ session.username = NULL_TEXT
                /\ session.token = NULL_TEXT
          /\ session.authenticated =>
                /\ session.username \in Usernames
                /\ session.token \in Tokens)
    /\ [][/\ session'.authenticated =>
                \E username \in Usernames, token \in Tokens :
                    session' = [authenticated |-> TRUE,
                                username |-> username, token |-> token]
          /\ ~session'.authenticated => session' = NewSession]_vars

C29_Witness ==
    /\ session.authenticated
    /\ session.username = "bob"
    /\ session.token = "t2"

====
